---- MODULE Spec2Model ----
(***************************************************************************)
(* Heat Stress Awareness Dashboard (src/app.py).                           *)
(*                                                                         *)
(* Two specifications are given.                                           *)
(*   SpecCalc : calculate_risk and the result rendering (risk breakdown,   *)
(*              AI guidance, recommended actions) applied to every         *)
(*              argument tuple of a bounded box around the declared input  *)
(*              ranges.                                                    *)
(*   Spec     : the Streamlit session: mode selector, Single Assessment    *)
(*              widgets and the Assess Risk handler, Comparison Mode,      *)
(*              Historical Tracking with Clear History, Batch Analysis.    *)
(***************************************************************************)
EXTENDS Integers, Sequences, FiniteSets, TLC

VARIABLES
    args,            \* SpecCalc: (temp, humidity, hours, activity) passed to calculate_risk
    ret,             \* SpecCalc: what calculate_risk returned or raised
    view,            \* SpecCalc: what the result tabs rendered for args
    pc,              \* SpecCalc: position of the harness
    dashboard_mode,  \* st.sidebar.radio "Select Mode"
    history,         \* st.session_state.history
    clock,           \* number of datetime.now() readings stored so far
    inputs,          \* Single Assessment widgets
    shown,           \* results rendered by the current script run of Single Assessment
    scenarios,       \* Comparison Mode: the scenarios list of the current run
    uploaded_file,   \* Batch Analysis: st.file_uploader value
    batch_out        \* Batch Analysis: what the current run produced

vars == <<args, ret, view, pc, dashboard_mode, history, clock, inputs, shown,
          scenarios, uploaded_file, batch_out>>

calcVars == <<args, ret, view, pc>>
appVars == <<dashboard_mode, history, clock, inputs, shown, scenarios,
             uploaded_file, batch_out>>

None == [none |-> TRUE]

----------------------------------------------------------------------------
(* Declared input ranges: the widget bounds of Single Assessment and of    *)
(* Comparison Mode.                                                        *)

TempMin == 25
TempMax == 50
HumidityMin == 30
HumidityMax == 90
DurationMin == 1
DurationMax == 10

Activities == {"Light", "Moderate", "Heavy"}

InRange(temp, humidity, hours) ==
    /\ temp \in TempMin..TempMax
    /\ humidity \in HumidityMin..HumidityMax
    /\ hours \in DurationMin..DurationMax

\* How far outside the declared ranges SpecCalc draws arguments.
Margin == 1

\* Labels that a CSV cell can hold and that are not an activity.
OtherLabels == {"Extreme"}

----------------------------------------------------------------------------
(* calculate_risk                                                          *)

Returned(level, score) == [raised |-> "", risk_level |-> level, risk_score |-> score]
Raised(exc) == [raised |-> exc]

activity_scores == [Light |-> 1, Moderate |-> 2, Heavy |-> 3]

\* variants of the definitions below, as a slip in the code would make them
temp_points_strict(temp) == IF temp > 40 THEN 3 ELSE IF temp >= 35 THEN 2 ELSE 0
hours_points_strict(hours) == IF hours > 6 THEN 2 ELSE 0
risk_level_of_strict(risk_score) ==
    IF risk_score > 8 THEN "High"
    ELSE IF risk_score >= 5 THEN "Moderate"
    ELSE "Low"

\* variant: one more temperature tier
temp_points_tiered(temp) ==
    IF temp >= 45 THEN 4 ELSE IF temp >= 40 THEN 3 ELSE IF temp >= 35 THEN 2 ELSE 0

temp_points(temp) == IF temp >= 40 THEN 3 ELSE IF temp >= 35 THEN 2 ELSE 0
humidity_points(humidity) == IF humidity >= 70 THEN 2 ELSE 0
hours_points(hours) == IF hours >= 6 THEN 2 ELSE 0

risk_level_of(risk_score) ==
    IF risk_score >= 8 THEN "High"
    ELSE IF risk_score >= 5 THEN "Moderate"
    ELSE "Low"

\* variant: activity_scores.get(activity, 0)
calculate_risk_default(temp, humidity, hours, activity) ==
    LET risk_score == temp_points(temp) + humidity_points(humidity) + hours_points(hours)
                      + (IF activity \in DOMAIN activity_scores
                         THEN activity_scores[activity] ELSE 0)
    IN  Returned(risk_level_of(risk_score), risk_score)

calculate_risk(temp, humidity, hours, activity) ==
    LET partial == temp_points(temp) + humidity_points(humidity) + hours_points(hours)
    IN  IF activity \notin DOMAIN activity_scores
        THEN Raised("KeyError")
        ELSE LET risk_score == partial + activity_scores[activity]
             IN  Returned(risk_level_of(risk_score), risk_score)

----------------------------------------------------------------------------
(* Result rendering of Single Assessment                                   *)

\* f-string formatting of an integer
str(n) == ToString(n)

conditions_line(temp, humidity, hours) ==
    <<"Conditions: ", str(temp), "C, ", str(humidity), "% humidity, ", str(hours), "h duration">>

explanations(temp, humidity, hours, activity) ==
    [High |-> <<"HIGH RISK DETECTED">>
                \o conditions_line(temp, humidity, hours)
                \o <<"Immediate action required",
                     "Implement all safety protocols",
                     "Increase hydration frequency",
                     "Mandatory rest breaks",
                     "Monitor for heat stress symptoms">>,
     Moderate |-> <<"MODERATE RISK">>
                \o conditions_line(temp, humidity, hours)
                \o <<"Caution advised",
                     "Regular hydration breaks",
                     "Monitor comfort levels",
                     "Adjust work pace as needed">>,
     Low |-> <<"LOW RISK">>
                \o conditions_line(temp, humidity, hours)
                \o <<"Normal safety protocols apply",
                     "Maintain regular hydration",
                     "Standard work practices acceptable">>]

\* variant: the conditions line also names the activity
ai_explain_risk_activity(temp, humidity, hours, activity, risk) ==
    IF risk \in DOMAIN explanations(temp, humidity, hours, activity)
    THEN explanations(temp, humidity, hours, activity)[risk] \o <<activity>>
    ELSE <<"No assessment available">>

ai_explain_risk(temp, humidity, hours, activity, risk) ==
    IF risk \in DOMAIN explanations(temp, humidity, hours, activity)
    THEN explanations(temp, humidity, hours, activity)[risk]
    ELSE <<"No assessment available">>

recommended_actions(risk_level) ==
    IF risk_level = "High"
    THEN <<"Stop work immediately if symptoms appear",
           "Drink 200ml water every 15 minutes",
           "Take 15-minute breaks in shade every hour",
           "Implement buddy system for monitoring",
           "Have emergency cooling measures ready">>
    ELSE IF risk_level = "Moderate"
    THEN <<"Increase water intake frequency",
           "Take breaks every 2 hours",
           "Monitor for discomfort",
           "Adjust work pace as needed",
           "Wear appropriate clothing">>
    ELSE <<"Maintain regular hydration",
           "Follow normal break schedule",
           "Stay aware of conditions",
           "Keep communication open">>

\* variant: the impact values of the radar chart, which start at 1
breakdown_data_radar(temperature, humidity, work_duration, activity_level, risk_score) ==
    <<IF temperature >= 40 THEN 3 ELSE IF temperature >= 35 THEN 2 ELSE 1,
      IF humidity >= 70 THEN 2 ELSE 1,
      IF work_duration >= 6 THEN 2 ELSE 1,
      activity_scores[activity_level],
      risk_score>>

\* The 'Contribution' column of the Risk Breakdown tab: four factor rows and TOTAL.
breakdown_data(temperature, humidity, work_duration, activity_level, risk_score) ==
    <<IF temperature >= 40 THEN 3 ELSE IF temperature >= 35 THEN 2 ELSE 0,
      IF humidity >= 70 THEN 2 ELSE 0,
      IF work_duration >= 6 THEN 2 ELSE 0,
      activity_scores[activity_level],
      risk_score>>

\* Everything the result tabs show for one assessment.
render_result(temperature, humidity, work_duration, activity_level, risk_level, risk_score) ==
    [risk_level |-> risk_level,
     risk_score |-> risk_score,
     guidance |-> ai_explain_risk(temperature, humidity, work_duration, activity_level, risk_level),
     actions |-> recommended_actions(risk_level),
     breakdown |-> breakdown_data(temperature, humidity, work_duration, activity_level, risk_score)]

----------------------------------------------------------------------------
(* pandas tables of Batch Analysis                                         *)

RequiredColumns == <<"temperature", "humidity", "duration", "activity">>

Range(seq) == {seq[i] : i \in 1..Len(seq)}

\* RangeIndex(n): the labels 0..n-1
RangeIndex(n) == [i \in 1..n |-> i - 1]

\* pd.read_csv: header row to columns, one row per record, default RangeIndex
read_csv(file) ==
    [columns |-> file.header,
     index |-> RangeIndex(Len(file.records)),
     data |-> file.records]

\* pd.DataFrame(list of dicts): the columns are the keys of the dicts, so an
\* empty list gives a frame without columns
DataFrame(results) ==
    [columns |-> IF results = <<>> THEN <<>> ELSE <<"risk_level", "risk_score">>,
     index |-> RangeIndex(Len(results)),
     data |-> results]

has_column(df, name) == name \in Range(df.columns)

\* df[name] for a column that exists
get_column(df, name) ==
    [index |-> df.index, values |-> [i \in 1..Len(df.data) |-> df.data[i][name]]]

Position(seq, label) == CHOOSE j \in 1..Len(seq) : seq[j] = label

\* df[name] = series: values are aligned on the index labels
set_column(df, name, series) ==
    [columns |-> IF has_column(df, name) THEN df.columns ELSE Append(df.columns, name),
     index |-> df.index,
     data |-> [i \in 1..Len(df.data) |->
                 LET cell == IF df.index[i] \in Range(series.index)
                             THEN series.values[Position(series.index, df.index[i])]
                             ELSE "NaN"
                     row == df.data[i]
                 IN  [c \in (DOMAIN row) \cup {name} |-> IF c = name THEN cell ELSE row[c]]]]

\* text of one cell in to_csv
cell_text(column, value) ==
    IF column \in {"activity", "risk_level", "site"} THEN value ELSE str(value)

\* df.to_csv(index=False): header line, then one line per row in column order
to_csv(df) ==
    <<df.columns>> \o
    [i \in 1..Len(df.data) |->
        [j \in 1..Len(df.columns) |-> cell_text(df.columns[j], df.data[i][df.columns[j]])]]

\* what one script run of Batch Analysis leaves on the page
batch_result(status, exc, message, calls, table, offered, csv) ==
    [status |-> status, exc |-> exc, message |-> message, calls |-> calls,
     table |-> table, download_offered |-> offered, download |-> csv]

EmptyFrame == [columns |-> <<>>, index |-> <<>>, data |-> <<>>]

BatchIdle == batch_result("idle", "", <<>>, 0, EmptyFrame, FALSE, <<>>)

\* variant: any() in place of all()
required_present_any(batch_df) ==
    \E k \in 1..Len(RequiredColumns) : has_column(batch_df, RequiredColumns[k])

required_present(batch_df) ==
    \A k \in 1..Len(RequiredColumns) : has_column(batch_df, RequiredColumns[k])

\* calculate_risk applied to one row
row_risk(row) ==
    IF Range(RequiredColumns) \subseteq DOMAIN row
    THEN calculate_risk(row["temperature"], row["humidity"], row["duration"], row["activity"])
    ELSE Raised("KeyError")

\* the script run of Batch Analysis with a file in the uploader
batch_analysis(uploaded) ==
    LET batch_df == read_csv(uploaded)
        n == Len(batch_df.data)
    IN  IF required_present(batch_df)
        THEN LET risks == [i \in 1..n |-> row_risk(batch_df.data[i])]
                 failing == {i \in 1..n : risks[i].raised # ""}
             IN  IF failing # {}
                 THEN LET first == CHOOSE i \in failing : \A j \in failing : i <= j
                      IN  batch_result("exception", risks[first].raised, <<>>, first,
                                       batch_df, FALSE, <<>>)
                 ELSE LET results == [i \in 1..n |->
                                        [risk_level |-> risks[i].risk_level,
                                         risk_score |-> risks[i].risk_score]]
                          results_df == DataFrame(results)
                      IN  IF ~has_column(results_df, "risk_level")
                          THEN batch_result("exception", "KeyError", <<>>, n,
                                            batch_df, FALSE, <<>>)
                          ELSE LET with_level == set_column(batch_df, "risk_level",
                                                   get_column(results_df, "risk_level"))
                                   with_score == set_column(with_level, "risk_score",
                                                   get_column(results_df, "risk_score"))
                               IN  batch_result("processed", "", <<>>, n, with_score,
                                                TRUE, to_csv(with_score))
        ELSE batch_result("error", "", RequiredColumns, 0, batch_df, FALSE, <<>>)

----------------------------------------------------------------------------
(* Inputs of the session                                                   *)

\* how many assessments one session performs
MaxClock == 2

Modes == {"Single Assessment", "Comparison Mode", "Historical Tracking", "Batch Analysis"}

\* values typed into the Single Assessment widgets (defaults and one other)
SampleTemperatures == {35, 42}
SampleHumidities == {60, 75}
SampleDurations == {4, 8}
SampleActivities == {"Light", "Heavy"}

MinScenarios == 2
MaxScenarios == 4

Row(t, h, d, a) == [temperature |-> t, humidity |-> h, duration |-> d, activity |-> a]

\* CSV files offered to the uploader
SampleFiles ==
    << \* the sample format shown on the page
       [header |-> RequiredColumns,
        records |-> <<Row(35, 60, 4, "Moderate"), Row(40, 75, 6, "Heavy"),
                      Row(28, 50, 3, "Light")>>],
       \* one more column, rows not in score order, one row twice
       [header |-> <<"site">> \o RequiredColumns,
        records |-> <<[site |-> "north", temperature |-> 40, humidity |-> 75,
                       duration |-> 6, activity |-> "Heavy"],
                      [site |-> "south", temperature |-> 28, humidity |-> 50,
                       duration |-> 3, activity |-> "Light"],
                      [site |-> "east", temperature |-> 36, humidity |-> 60,
                       duration |-> 4, activity |-> "Moderate"],
                      [site |-> "north", temperature |-> 40, humidity |-> 75,
                       duration |-> 6, activity |-> "Heavy"]>>],
       \* header line only
       [header |-> RequiredColumns, records |-> <<>>],
       \* no duration column
       [header |-> <<"temperature", "humidity", "activity">>,
        records |-> <<[temperature |-> 40, humidity |-> 75, activity |-> "Heavy"]>>],
       \* no humidity and no activity column
       [header |-> <<"temperature", "duration">>,
        records |-> <<[temperature |-> 40, duration |-> 6],
                      [temperature |-> 28, duration |-> 3]>>],
       \* second row carries an unknown activity label
       [header |-> RequiredColumns,
        records |-> <<Row(35, 60, 4, "Moderate"), Row(40, 75, 6, "Extreme"),
                      Row(28, 50, 3, "Light")>>],
       \* first row outside the declared ranges
       [header |-> RequiredColumns,
        records |-> <<Row(55, 95, 12, "Light"), Row(28, 50, 3, "Light")>>] >>

\* the uploader holds no file
NoFile == [absent |-> TRUE]

----------------------------------------------------------------------------
(* The session                                                             *)

WidgetDefaults ==
    [temperature |-> 35, humidity |-> 60, work_duration |-> 4, activity_level |-> "Light"]

\* one element of the scenarios list; i counts from 0 as in the source
scenario(i, temp, humid, duration, activity) ==
    LET risk == calculate_risk(temp, humid, duration, activity)
    IN  [name |-> i + 1, temp |-> temp, humidity |-> humid, duration |-> duration,
         activity |-> activity, risk_level |-> risk.risk_level,
         risk_score |-> risk.risk_score]

default_scenario(i) == scenario(i, 30 + i * 5, 50 + i * 10, 4, "Light")

\* variant: insert(0, ...)
history_prepend(h, entry) == <<entry>> \o h

\* st.session_state.history.append(...)
history_append(h, entry) == Append(h, entry)

\* variant: the temp and humidity keys take each other's value
history_entry_swapped(now, temperature, humidity, work_duration, activity_level, risk) ==
    [timestamp |-> now, temp |-> humidity, humidity |-> temperature,
     duration |-> work_duration, activity |-> activity_level,
     risk_level |-> risk.risk_level, risk_score |-> risk.risk_score]

history_entry(now, temperature, humidity, work_duration, activity_level, risk) ==
    [timestamp |-> now, temp |-> temperature, humidity |-> humidity,
     duration |-> work_duration, activity |-> activity_level,
     risk_level |-> risk.risk_level, risk_score |-> risk.risk_score]

CalcIdle ==
    /\ args = <<35, 60, 4, "Light">>
    /\ ret = None
    /\ view = None
    /\ pc = "idle"

AppInit ==
    /\ dashboard_mode = "Single Assessment"
    /\ history = <<>>
    /\ clock = 0
    /\ inputs = WidgetDefaults
    /\ shown = None
    /\ scenarios = <<>>
    /\ uploaded_file = NoFile
    /\ batch_out = BatchIdle

Init == CalcIdle /\ AppInit

\* the sidebar radio: the script reruns in the new mode, widgets that are no
\* longer drawn lose their values
SelectMode(m) ==
    /\ m # dashboard_mode
    /\ dashboard_mode' = m
    /\ inputs' = WidgetDefaults
    /\ shown' = None
    /\ scenarios' = IF m = "Comparison Mode"
                    THEN [j \in 1..MinScenarios |-> default_scenario(j - 1)]
                    ELSE <<>>
    /\ uploaded_file' = NoFile
    /\ batch_out' = BatchIdle
    /\ UNCHANGED <<history, clock>>
    /\ UNCHANGED calcVars

SetInput(field, value) ==
    /\ dashboard_mode = "Single Assessment"
    /\ inputs[field] # value
    /\ inputs' = [inputs EXCEPT ![field] = value]
    /\ shown' = None
    /\ UNCHANGED <<dashboard_mode, history, clock, scenarios, uploaded_file, batch_out>>
    /\ UNCHANGED calcVars

SetTemperature == \E v \in SampleTemperatures : SetInput("temperature", v)
SetHumidity == \E v \in SampleHumidities : SetInput("humidity", v)
SetDuration == \E v \in SampleDurations : SetInput("work_duration", v)
SetActivity == \E a \in SampleActivities : SetInput("activity_level", a)

\* the Assess Risk button
AssessRisk ==
    /\ dashboard_mode = "Single Assessment"
    /\ clock < MaxClock
    /\ LET risk == calculate_risk(inputs.temperature, inputs.humidity,
                                  inputs.work_duration, inputs.activity_level)
       IN  /\ clock' = clock + 1
           /\ history' = history_append(history,
                            history_entry(clock + 1, inputs.temperature, inputs.humidity,
                                          inputs.work_duration, inputs.activity_level, risk))
           /\ shown' = render_result(inputs.temperature, inputs.humidity,
                                     inputs.work_duration, inputs.activity_level,
                                     risk.risk_level, risk.risk_score)
    /\ UNCHANGED <<dashboard_mode, inputs, scenarios, uploaded_file, batch_out>>
    /\ UNCHANGED calcVars

\* the Download CSV button of the Export tab: a rerun without Assess Risk
DownloadAssessment ==
    /\ dashboard_mode = "Single Assessment"
    /\ shown # None
    /\ shown' = None
    /\ UNCHANGED <<dashboard_mode, history, clock, inputs, scenarios, uploaded_file, batch_out>>
    /\ UNCHANGED calcVars

\* the Number of Scenarios slider
SetNumScenarios ==
    /\ dashboard_mode = "Comparison Mode"
    /\ \E n \in MinScenarios..MaxScenarios :
         /\ n # Len(scenarios)
         /\ scenarios' = [j \in 1..n |-> IF j <= Len(scenarios) THEN scenarios[j]
                                         ELSE default_scenario(j - 1)]
    /\ UNCHANGED <<dashboard_mode, history, clock, inputs, shown, uploaded_file, batch_out>>
    /\ UNCHANGED calcVars

\* the Activity selectbox of one scenario
SetScenarioActivity ==
    /\ dashboard_mode = "Comparison Mode"
    /\ \E j \in 1..Len(scenarios), a \in Activities :
         /\ scenarios[j].activity # a
         /\ scenarios' = [scenarios EXCEPT ![j] =
                            scenario(j - 1, scenarios[j].temp, scenarios[j].humidity,
                                     scenarios[j].duration, a)]
    /\ UNCHANGED <<dashboard_mode, history, clock, inputs, shown, uploaded_file, batch_out>>
    /\ UNCHANGED calcVars

\* the Clear History button, drawn only when the history is not empty
ClearHistory ==
    /\ dashboard_mode = "Historical Tracking"
    /\ Len(history) # 0
    /\ history' = <<>>
    /\ UNCHANGED <<dashboard_mode, clock, inputs, shown, scenarios, uploaded_file, batch_out>>
    /\ UNCHANGED calcVars

\* a file is put into the uploader
UploadFile ==
    /\ dashboard_mode = "Batch Analysis"
    /\ \E k \in 1..Len(SampleFiles) :
         /\ uploaded_file' = SampleFiles[k]
         /\ batch_out' = batch_analysis(SampleFiles[k])
    /\ UNCHANGED <<dashboard_mode, history, clock, inputs, shown, scenarios>>
    /\ UNCHANGED calcVars

\* the file is taken out of the uploader
RemoveFile ==
    /\ dashboard_mode = "Batch Analysis"
    /\ batch_out.status # "idle"
    /\ uploaded_file' = NoFile
    /\ batch_out' = BatchIdle
    /\ UNCHANGED <<dashboard_mode, history, clock, inputs, shown, scenarios>>
    /\ UNCHANGED calcVars

Next ==
    \/ \E m \in Modes : SelectMode(m)
    \/ SetTemperature
    \/ SetHumidity
    \/ SetDuration
    \/ SetActivity
    \/ AssessRisk
    \/ DownloadAssessment
    \/ SetNumScenarios
    \/ SetScenarioActivity
    \/ ClearHistory
    \/ UploadFile
    \/ RemoveFile

Spec == Init /\ [][Next]_vars

----------------------------------------------------------------------------
(* calculate_risk and the rendering on every argument tuple                *)

CalcInit ==
    /\ args \in ((TempMin - Margin)..(TempMax + Margin))
                \X ((HumidityMin - Margin)..(HumidityMax + Margin))
                \X ((DurationMin - Margin)..(DurationMax + Margin))
                \X (Activities \cup OtherLabels)
    /\ ret = None
    /\ view = None
    /\ pc = "call"

InitCalc == CalcInit /\ AppInit

CallCalculateRisk ==
    /\ pc = "call"
    /\ ret' = calculate_risk(args[1], args[2], args[3], args[4])
    /\ pc' = "returned"
    /\ UNCHANGED <<args, view>>
    /\ UNCHANGED appVars

\* the result tabs; Single Assessment reaches them with widget values only
RenderResult ==
    /\ pc = "returned"
    /\ ret.raised = ""
    /\ InRange(args[1], args[2], args[3])
    /\ view' = render_result(args[1], args[2], args[3], args[4],
                             ret.risk_level, ret.risk_score)
    /\ pc' = "rendered"
    /\ UNCHANGED <<args, ret>>
    /\ UNCHANGED appVars

NextCalc ==
    \/ CallCalculateRisk
    \/ RenderResult

SpecCalc == InitCalc /\ [][NextCalc]_vars

----------------------------------------------------------------------------
(* Properties of calculate_risk and of the rendering, under SpecCalc        *)

ArgsInRange == InRange(args[1], args[2], args[3]) /\ args[4] \in Activities

\* the rule table as the specification states it
RuleT(t) == IF t >= 40 THEN 3 ELSE IF 35 <= t /\ t < 40 THEN 2 ELSE 0
RuleH(h) == IF h >= 70 THEN 2 ELSE 0
RuleD(d) == IF d >= 6 THEN 2 ELSE 0
RuleA(a) == CASE a = "Light" -> 1 [] a = "Moderate" -> 2 [] a = "Heavy" -> 3

\* C1: for every temperature in 25..50, humidity in 30..90, duration in 1..10
\* and activity Light, Moderate or Heavy, calculate_risk returns the score
\* T + H + D + A of the rule table, each term depending on its own factor only.
C1_ScoreIsSumOfRules ==
    (pc # "call" /\ ArgsInRange) =>
        /\ ret.raised = ""
        /\ ret.risk_score = RuleT(args[1]) + RuleH(args[2]) + RuleD(args[3]) + RuleA(args[4])

C1_Witness ==
    /\ pc = "returned"
    /\ args = <<39, 70, 5, "Moderate">>
    /\ ret.risk_score = 6

\* C2: for every in-range input the four contributions shown in the risk
\* breakdown are non-negative integers, their sum is the score calculate_risk
\* returned for the same input, and that score lies in 1..12.
C2_BreakdownSumsToScore ==
    pc = "rendered" =>
        /\ \A k \in 1..4 : view.breakdown[k] \in Nat
        /\ view.breakdown[1] + view.breakdown[2] + view.breakdown[3] + view.breakdown[4]
              = ret.risk_score
        /\ ret.risk_score \in 1..12

C2_Witness ==
    /\ pc = "rendered"
    /\ args = <<34, 69, 5, "Light">>
    /\ view.breakdown = <<0, 0, 0, 1, 1>>

\* C3: whenever calculate_risk returns, the level is High exactly when the
\* score is at least 8, Moderate exactly when it is 5, 6 or 7, and Low exactly
\* when it is at most 4; so a higher score never has a lower level.
C3_LevelThresholds ==
    (pc # "call" /\ ret.raised = "") =>
        /\ (ret.risk_level = "High") <=> (ret.risk_score >= 8)
        /\ (ret.risk_level = "Moderate") <=> (5 <= ret.risk_score /\ ret.risk_score <= 7)
        /\ (ret.risk_level = "Low") <=> (ret.risk_score <= 4)

C3_Witness ==
    /\ pc = "returned"
    /\ ret.raised = ""
    /\ ret.risk_score = 8
    /\ ret.risk_level = "High"

\* C4: an activity that is not Light, Moderate or Heavy is rejected with an
\* error: calculate_risk raises, returns no score and no level, and does not
\* fall back to some contribution.
C4_UnknownActivityRaises ==
    (pc # "call" /\ args[4] \notin Activities) =>
        /\ ret.raised = "KeyError"
        /\ DOMAIN ret = {"raised"}

C4_Witness ==
    /\ pc = "returned"
    /\ args = <<40, 75, 6, "Extreme">>
    /\ ret = Raised("KeyError")

\* C5: a temperature outside 25..50, a humidity outside 30..90 or a duration
\* outside 1..10 is rejected with an error, and no score or level is produced.
C5_OutOfRangeRejected ==
    (pc # "call" /\ ~InRange(args[1], args[2], args[3])) =>
        /\ ret.raised # ""
        /\ DOMAIN ret = {"raised"}

\* C10: the three worked examples: (40, 75, 6, Heavy) scores 10 and is High,
\* (28, 50, 3, Light) scores 1 and is Low, (36, 60, 4, Moderate) scores 4 and
\* is Low.
C10_WorkedExamples ==
    pc # "call" =>
        /\ (args = <<40, 75, 6, "Heavy">>) => (ret = Returned("High", 10))
        /\ (args = <<28, 50, 3, "Light">>) => (ret = Returned("Low", 1))
        /\ (args = <<36, 60, 4, "Moderate">>) => (ret = Returned("Low", 4))

C10_Witness ==
    /\ pc = "rendered"
    /\ args = <<40, 75, 6, "Heavy">>
    /\ ret = Returned("High", 10)

----------------------------------------------------------------------------
(* Properties of the session, under Spec                                   *)

BatchRan == batch_out.status # "idle"

MissingColumns(file) == {c \in Range(RequiredColumns) : c \notin Range(file.header)}

\* nothing of the batch was processed: no call, no added column, no download
NothingProcessed ==
    /\ batch_out.calls = 0
    /\ batch_out.table = read_csv(uploaded_file)
    /\ ~has_column(batch_out.table, "risk_level")
    /\ ~has_column(batch_out.table, "risk_score")
    /\ ~batch_out.download_offered

\* C6 as the specification states it: a table that lacks required columns is
\* rejected with an error that names the columns that are missing, and nothing
\* of it is processed.
C6_ErrorNamesMissingColumns ==
    (BatchRan /\ MissingColumns(uploaded_file) # {}) =>
        /\ batch_out.status = "error"
        /\ Range(batch_out.message) = MissingColumns(uploaded_file)
        /\ NothingProcessed

\* C6: a table that lacks any of temperature, humidity, duration, activity is
\* rejected as a whole with an error that lists all four required columns,
\* whichever of them are missing; calculate_risk is called for no row, no
\* risk_level or risk_score column is added and no download is offered.
C6_MissingColumnsRejected ==
    (BatchRan /\ MissingColumns(uploaded_file) # {}) =>
        /\ batch_out.status = "error"
        /\ batch_out.message = RequiredColumns
        /\ NothingProcessed

C6_Witness ==
    /\ BatchRan
    /\ MissingColumns(uploaded_file) = {"humidity", "activity"}
    /\ batch_out.status = "error"

\* a file whose rows all hold in-range values and a known activity
ValidFile(file) ==
    /\ MissingColumns(file) = {}
    /\ \A i \in 1..Len(file.records) :
         LET row == file.records[i]
         IN  /\ InRange(row["temperature"], row["humidity"], row["duration"])
             /\ row["activity"] \in Activities

\* C7: a table of N valid rows gives an output table of exactly N rows in the
\* input order; row i keeps every input column value of input row i and
\* carries the risk_level and risk_score that calculate_risk gives for row i.
C7_BatchKeepsRows ==
    (BatchRan /\ ValidFile(uploaded_file)) =>
        /\ batch_out.status = "processed"
        /\ Len(batch_out.table.data) = Len(uploaded_file.records)
        /\ \A i \in 1..Len(uploaded_file.records) :
             LET given == uploaded_file.records[i]
                 out == batch_out.table.data[i]
                 risk == calculate_risk(given["temperature"], given["humidity"],
                                        given["duration"], given["activity"])
             IN  /\ \A c \in DOMAIN given : out[c] = given[c]
                 /\ out["risk_level"] = risk.risk_level
                 /\ out["risk_score"] = risk.risk_score

IsPrefix(h, g) == Len(h) <= Len(g) /\ SubSeq(g, 1, Len(h)) = h

\* C8: the history is an append-only list. Assess Risk appends exactly one
\* entry at the end and leaves every earlier entry in place and unchanged;
\* Clear History empties the list; no other action, in particular none in
\* Comparison Mode, Historical Tracking display or Batch Analysis, changes it.
C8_HistoryAppendOnly ==
    [][ /\ AssessRisk => /\ Len(history') = Len(history) + 1
                         /\ IsPrefix(history, history')
        /\ ClearHistory => history' = <<>>
        /\ ~(AssessRisk \/ ClearHistory) => history' = history
        /\ dashboard_mode \in {"Comparison Mode", "Batch Analysis"} => history' = history
      ]_vars

C8_Witness ==
    /\ dashboard_mode = "Single Assessment"
    /\ shown # None
    /\ Len(history) = 2
    /\ history[1].timestamp = 1
    /\ history[2].timestamp = 2
    /\ history[1].temp # history[2].temp

SameConditions(e) ==
    /\ e.temp = inputs.temperature
    /\ e.humidity = inputs.humidity
    /\ e.duration = inputs.work_duration

\* the guidance text an entry of the history was given when it was assessed
GuidanceOf(e) == ai_explain_risk(e.temp, e.humidity, e.duration, e.activity, e.risk_level)

\* C9 as the specification states it: the guidance text and the action list
\* depend on the level alone, so the assessment on the page has the text and
\* the actions of every earlier assessment of the same level.
C9_GuidanceByLevelAlone ==
    shown # None =>
        \A i \in 1..Len(history) :
            history[i].risk_level = shown.risk_level =>
                /\ GuidanceOf(history[i]) = shown.guidance
                /\ recommended_actions(history[i].risk_level) = shown.actions

\* C9: the action list depends on the level alone; the guidance text depends
\* on the level and on the temperature, humidity and duration it quotes, and
\* not on the activity: two assessments of the same level get the same
\* actions, and the same text when these three inputs agree.
C9_GuidanceByLevelAndConditions ==
    shown # None =>
        \A i \in 1..Len(history) :
            history[i].risk_level = shown.risk_level =>
                /\ SameConditions(history[i]) => GuidanceOf(history[i]) = shown.guidance
                /\ recommended_actions(history[i].risk_level) = shown.actions

C9_Witness ==
    /\ shown # None
    /\ Len(history) = 2
    /\ history[1].risk_level = history[2].risk_level
    /\ history[1].activity # history[2].activity
    /\ SameConditions(history[1])

----------------------------------------------------------------------------
(* The scores that occur, under SpecCalc                                   *)

\* for each score from 1 to 10 an in-range input at the rule thresholds
ScoreExample ==
    << <<25, 30, 1, "Light">>,
       <<25, 30, 1, "Moderate">>,
       <<25, 30, 1, "Heavy">>,
       <<35, 30, 1, "Moderate">>,
       <<35, 30, 1, "Heavy">>,
       <<40, 30, 1, "Heavy">>,
       <<35, 70, 1, "Heavy">>,
       <<40, 70, 1, "Heavy">>,
       <<35, 70, 6, "Heavy">>,
       <<40, 70, 6, "Heavy">> >>

\* C11: over the in-range inputs calculate_risk returns exactly the scores
\* 1..10: every score lies in 1..10, so 11 and 12 never occur, each of 1..10
\* is the score of some in-range input, and the score is 10 only with
\* temperature >= 40, humidity >= 70, duration >= 6 and activity Heavy.
C11_ScoresAreOneToTen ==
    (pc # "call" /\ ArgsInRange) =>
        /\ ret.raised = ""
        /\ ret.risk_score \in 1..10
        /\ ret.risk_score = 10 =>
              (args[1] >= 40 /\ args[2] >= 70 /\ args[3] >= 6 /\ args[4] = "Heavy")
        /\ \A k \in 1..Len(ScoreExample) : args = ScoreExample[k] => ret.risk_score = k

C11_Witness ==
    /\ pc = "returned"
    /\ args = <<50, 90, 10, "Heavy">>
    /\ ret.risk_score = 10

----------------------------------------------------------------------------
(* The stored history, under Spec                                          *)

\* C12: in every reachable state every history entry holds a temperature in
\* 25..50, a humidity in 30..90, a duration in 1..10, an activity of Light,
\* Moderate or Heavy, and the risk_score and risk_level that calculate_risk
\* gives for the entry's own stored inputs; so the stored level is High
\* exactly for a stored score >= 8, Moderate for 5..7 and Low for <= 4.
C12_HistoryEntriesConsistent ==
    \A i \in 1..Len(history) :
        LET e == history[i]
            risk == calculate_risk(e.temp, e.humidity, e.duration, e.activity)
        IN  /\ InRange(e.temp, e.humidity, e.duration)
            /\ e.activity \in Activities
            /\ risk.raised = ""
            /\ e.risk_score = risk.risk_score
            /\ e.risk_level = risk.risk_level
            /\ (e.risk_level = "High") <=> (e.risk_score >= 8)
            /\ (e.risk_level = "Moderate") <=> (5 <= e.risk_score /\ e.risk_score <= 7)
            /\ (e.risk_level = "Low") <=> (e.risk_score <= 4)

C12_Witness ==
    /\ dashboard_mode = "Historical Tracking"
    /\ Len(history) = 2
    /\ history[1].risk_level = "High"
    /\ history[2].risk_level = "Low"
    /\ history[1].humidity # history[2].humidity


====
